---- MODULE Spec2Model ----
(***************************************************************************)
(* A state-machine model of the RTSP snapshot tunnel gateway               *)
(* (src/src/services/rtsp-tunnel-gateway.ts), its storage worker           *)
(* (src/src/services/storage-worker.ts) and the module wiring              *)
(* (src/src/index.ts).                                                     *)
(*                                                                         *)
(* Node.js runs every callback to its first await without interleaving, so *)
(* one action is one callback or one continuation of an async function.    *)
(* A suspended async function is a pending task in the state.              *)
(***************************************************************************)
EXTENDS Integers, Sequences, FiniteSets, TLC

\* ----------------------------------------------------------------- bounds
MaxSessions == 2        \* WebSocket connections accepted over a run
MaxMsgs == 2            \* text messages devices send over a run
MaxSocks == 1           \* TCP connections made to the loopback proxy
MaxStarts == 1          \* calls of startAll that find the gateway stopped
Concurrency == 1        \* STORAGE_CONCURRENCY of the run
MaxReplicas == 2        \* replicas that share the leader lock
MaxJobs == 4            \* captured events emitted to the storage worker on its own
MaxWaits == 2           \* wait loops of StorageWorker.stop() pending at once
MaxShutdownJobs == 1    \* captured events taken while replicas shut down
MaxTunnelSocks == 2     \* TCP connections made to the proxy when the tunnel is followed
MaxRenewals == 2        \* lock.extend calls of one elector pending at once

Ids == 1..MaxSessions
SockIds == 1..MaxSocks
TunnelSocks == 1..MaxTunnelSocks
Replicas == 1..MaxReplicas

\* Device identities: the one devices announce in HELLO, and the ones an
\* AUTH line may name.
HelloDevices == {"devA"}
AuthDevices == {"devA", "devB"}
\* Identities whose certificate row exists in the registry.
CertDevices == {"devA", "devB"}

\* ------------------------------------------------------------------ state
VARIABLES
    cfg,                     \* env-driven configuration, fixed at construction
    started,                 \* RtspTunnelGateway.started
    server,                  \* this.server:      "null" | "created" | "listening" | "closing"
    wss,                     \* this.wss != null
    proxyServer,             \* this.proxyServer: "null" | "created" | "listening" | "closing"
    startPc,                 \* where start() is suspended
    stopPc,                  \* where stop() is suspended
    stopAllPc,               \* where index.ts stopAll is suspended
    starts,                  \* number of start() calls that went past the guard
    sessions,                \* keys of the session table
    sess,                    \* the Session objects ever created, by id
    ws,                      \* readyState of each session's WebSocket
    globalCaptureInFlight,
    globalCaptureSessionId,  \* 0 is null
    pend,                    \* suspended message handlers and capture flows
    proc,                    \* the ffmpeg child spawned for each session
    socks,                   \* loopback sockets accepted by the proxy
    msgs,                    \* text messages received so far
    sent,                    \* what the server has put on each WebSocket
    ev,                      \* snapshot:captured / snapshot:failed{capture} emitted
    validAuth,               \* sessions that got an AUTH with a valid signature
    noHello,                 \* sessions whose HELLO timer fired before any HELLO
    running,                 \* StorageWorker.running
    onCapturedBound,         \* StorageWorker.onCapturedBound != null
    inFlight,                \* StorageWorker.inFlight
    queue,                   \* StorageWorker.queue (captured events, by session id)
    storing,                 \* store() calls in progress, per captured event
    stopWaiting,             \* StorageWorker.stop() calls inside their wait loop
    dayCall,                 \* a call of dayFromCapturedAt: its arguments, the
                             \* USE_DEVICE_TZ_OFFSET of the process, its result
    evStore,                 \* snapshot:stored / snapshot:failed{store} emitted,
                             \* and local files unlinked, per session
    leader,                  \* ctx.leader is present (a LeaderElector is wired in)
    hooked,                  \* index.ts init has registered its leader hooks
    holder,                  \* the replica whose lock the store holds; 0 is none
    lock,                    \* LeaderElector.lock is set, per replica
    acquireTimer,            \* LeaderElector.acquireTimer is armed, per replica
    acquiring,               \* a tryAcquire awaits redlock.acquire, per replica
    renewTimer,              \* LeaderElector.renewTimer is running, per replica
    renewing,                \* renewals that await lock.extend, per replica
    lastEvent,               \* the last of elected / revoked each elector emitted
    shutPc                   \* where each replica's process is in its SIGTERM
                             \* handler: "run" before it, "exited" after it

gwVars == <<started, server, wss, proxyServer, startPc, stopPc, stopAllPc, starts>>
coordVars == <<globalCaptureInFlight, globalCaptureSessionId>>
sessVars == <<sessions, sess, ws, pend, proc, socks, msgs, sent, ev, validAuth, noHello>>
workerVars == <<running, onCapturedBound, inFlight, queue, storing, stopWaiting, evStore,
               dayCall>>
elVars == <<leader, hooked, holder, lock, acquireTimer, acquiring, renewTimer,
            renewing, lastEvent, shutPc>>
vars == <<cfg, gwVars, coordVars, sessVars, workerVars, elVars>>
\* What the gateway, its sessions and the storage worker hold.
gatewayVars == <<cfg, gwVars, coordVars, sessVars, workerVars>>

\* The replica whose gateway and storage worker are modelled.
instanceId == 1

\* The process of replica r has not exited.
up(r) == shutPc[r] # "exited"

\* The process of the modelled replica has not exited.
alive == up(instanceId)

\* ------------------------------------------------------------ construction
\* The Session literal of onConnection.
NewSession ==
    [deviceId |-> "unknown", nonceB64 |-> 0, authed |-> FALSE,
     captureActive |-> FALSE, proxySock |-> 0, ffmpeg |-> FALSE,
     helloTimer |-> FALSE, closed |-> FALSE]

NoPending == [hello |-> 0, authOk |-> 0, authFail |-> 0, params |-> 0]
NoEvents == [captured |-> 0, failed |-> <<>>]
NoStoreEvents == [stored |-> 0, failed |-> 0, unlinked |-> 0]
\* A loopback socket: its state, the session whose closure its handlers
\* hold, the sessions whose type-2 payloads were written to it, and the
\* WebSockets its chunks were sent on (with whether it was that session's
\* proxySock at the time).
FreeSock == [st |-> "free", owner |-> 0, wrote |-> {}, fwd |-> {}]
RejectedSock == [FreeSock EXCEPT !.st = "closed"]

Configs ==
    [requireAuth : BOOLEAN, autoCapture : BOOLEAN, camPass : BOOLEAN,
     concurrency : {Concurrency}]

InitGateway ==
    /\ cfg \in Configs
    /\ started = FALSE
    /\ server = "null"
    /\ wss = FALSE
    /\ proxyServer = "null"
    /\ startPc = "idle"
    /\ stopPc = "idle"
    /\ stopAllPc = "idle"
    /\ starts = 0
    /\ sessions = {}
    /\ sess = [s \in Ids |-> NewSession]
    /\ ws = [s \in Ids |-> "none"]
    /\ globalCaptureInFlight = FALSE
    /\ globalCaptureSessionId = 0
    /\ pend = [s \in Ids |-> NoPending]
    /\ proc = [s \in Ids |-> "none"]
    /\ socks = [k \in TunnelSocks |-> FreeSock]
    /\ msgs = 0
    /\ sent = [s \in Ids |-> {}]
    /\ ev = [s \in Ids |-> NoEvents]
    /\ validAuth = {}
    /\ noHello = {}
    /\ running = FALSE
    /\ onCapturedBound = FALSE
    /\ inFlight = 0
    /\ queue = <<>>
    /\ storing = [s \in Ids |-> 0]
    /\ stopWaiting = 0
    /\ evStore = [s \in Ids |-> NoStoreEvents]

\* No call of dayFromCapturedAt is followed: the arguments are a capture at
\* the epoch with no offset, and the call has returned.
NoDayCall ==
    [capturedAt |-> 0, tzOffsetHours |-> [kind |-> "null", v |-> 0], hasOffset |-> FALSE,
     result |-> [st |-> "day", ymd |-> <<1970, 1, 1>>]]

\* A single-node deployment: ctx.leader is absent.
InitNoLeader ==
    /\ leader = FALSE
    /\ hooked = FALSE
    /\ holder = 0
    /\ lock = [r \in Replicas |-> FALSE]
    /\ acquireTimer = [r \in Replicas |-> FALSE]
    /\ acquiring = [r \in Replicas |-> FALSE]
    /\ renewTimer = [r \in Replicas |-> FALSE]
    /\ renewing = [r \in Replicas |-> 0]
    /\ lastEvent = [r \in Replicas |-> "none"]
    /\ shutPc = [r \in Replicas |-> "run"]

Init == InitGateway /\ InitNoLeader /\ dayCall = NoDayCall


\* ---------------------------------------------------------------- helpers
isWsOpen(s) == ws[s] = "OPEN"

\* sendText / sendOpen / sendClose: ws.send reaches the peer only while the
\* socket is OPEN; otherwise the call fails inside its try block.
sendTo(snt, s, m) == [snt EXCEPT ![s] = IF isWsOpen(s) THEN @ \cup {m} ELSE @]

\* ws.close(): OPEN becomes CLOSING, any other state is left alone.
wsCloseCall(s) == [ws EXCEPT ![s] = IF @ = "OPEN" THEN "CLOSING" ELSE @]

emitFailed(s, err) == [ev EXCEPT ![s].failed = Append(@, err)]

\* safeDeviceId: the device ids of the model are short and made of safe
\* characters, which the function returns as they are; the empty id becomes
\* "unknown".
safeDeviceId(id) == IF id = "" THEN "unknown" ELSE id

\* A verify that looks at the certificate only and accepts any signature:
\* the fault C9_CaptureNeedsAuth has to notice.
verifyAnySignature(deviceId, nonceB64, sig) ==
    deviceId \in CertDevices

\* DeviceAuth.verify: the certificate of deviceId must exist and the signature
\* must be one made with that device's key over `${deviceId}.${nonceB64}`.
\* A signature is the pair <<signer, nonce signed>>; nonce 0 is a signature
\* over anything that is not a nonce of this session.
verify(deviceId, nonceB64, sig) ==
    /\ deviceId \in CertDevices
    /\ sig = <<deviceId, nonceB64>>

\* The guards of maybeAutoCapture, for a session whose authed flag is `authed`.
maybeAutoCapture(s, authed) ==
    /\ cfg.autoCapture
    /\ isWsOpen(s)
    /\ ~sess[s].captureActive
    /\ ~globalCaptureInFlight
    /\ sess[s].deviceId # "unknown"
    /\ (cfg.requireAuth => authed)

\* The guards of captureOnce, in order: the first that fails names the error.
captureOnceError(s) ==
    IF ~cfg.camPass THEN "CAM_PASS is required"
    ELSE IF ~isWsOpen(s) THEN "WS not open"
    ELSE IF sess[s].captureActive THEN "Session capture already active"
    ELSE IF globalCaptureInFlight THEN "Global capture already in progress"
    ELSE IF cfg.requireAuth /\ ~sess[s].authed THEN "Not authenticated"
    ELSE "none"

\* ---------------------------------------------------- onConnection.cleanup
\* cleanup(why) applied to every session of S; it returns at once on a
\* session that is already closed.
Closing(S) == {s \in S : ~sess[s].closed}

cleanupSess(S) ==
    [s \in Ids |->
        IF s \in Closing(S)
        THEN [sess[s] EXCEPT !.closed = TRUE, !.helloTimer = FALSE,
                             !.ffmpeg = FALSE, !.proxySock = 0]
        ELSE sess[s]]

\* session.ffmpeg.kill("SIGKILL")
cleanupProc(S) ==
    [s \in Ids |->
        IF s \in Closing(S) /\ sess[s].ffmpeg /\ proc[s] = "running"
        THEN "killed" ELSE proc[s]]

\* session.proxySock.destroy(): the socket's close event follows later
cleanupSocks(S) ==
    [k \in TunnelSocks |->
        IF socks[k].st = "open" /\ \E s \in Closing(S) : sess[s].proxySock = k
        THEN [socks[k] EXCEPT !.st = "destroyed"] ELSE socks[k]]

cleanupReleases(S) == globalCaptureInFlight /\ globalCaptureSessionId \in Closing(S)

cleanupSent(S) ==
    [s \in Ids |->
        IF s \in Closing(S) /\ isWsOpen(s) THEN sent[s] \cup {"CLOSE"} ELSE sent[s]]

\* ------------------------------------------------------------ onConnection
\* A WebSocket is accepted: the session is created and registered, READY is
\* sent and the HELLO timer is armed.  Session ids are fresh, so the model
\* hands them out in order.
onConnection(s) ==
    /\ server = "listening" /\ wss
    /\ ws[s] = "none"
    /\ \A t \in Ids : t < s => ws[t] # "none"
    /\ ws' = [ws EXCEPT ![s] = "OPEN"]
    /\ sess' = [sess EXCEPT ![s] = [NewSession EXCEPT !.helloTimer = TRUE]]
    /\ sessions' = sessions \cup {s}
    /\ sent' = [sent EXCEPT ![s] = {"READY"}]
    /\ UNCHANGED <<elVars, cfg, gwVars, coordVars, workerVars, pend, proc, socks, msgs,
                   ev, validAuth, noHello>>

\* ws.on("close"): the socket is CLOSED when the event is delivered.
wsOnClose(s) ==
    /\ ws[s] \in {"OPEN", "CLOSING"}
    /\ ws' = [ws EXCEPT ![s] = "CLOSED"]
    /\ sess' = cleanupSess({s})
    /\ proc' = cleanupProc({s})
    /\ socks' = cleanupSocks({s})
    /\ globalCaptureInFlight' = (globalCaptureInFlight /\ ~cleanupReleases({s}))
    /\ globalCaptureSessionId' = IF cleanupReleases({s}) THEN 0 ELSE globalCaptureSessionId
    /\ sessions' = sessions \ Closing({s})
    /\ UNCHANGED <<elVars, cfg, gwVars, workerVars, pend, msgs, sent, ev, validAuth, noHello>>

\* ws.on("error"): the library has moved the socket to CLOSING when it emits
\* the event; the close event follows.
wsOnError(s) ==
    /\ ws[s] \in {"OPEN", "CLOSING"}
    /\ ~sess[s].closed
    /\ ws' = [ws EXCEPT ![s] = "CLOSING"]
    /\ sess' = cleanupSess({s})
    /\ proc' = cleanupProc({s})
    /\ socks' = cleanupSocks({s})
    /\ globalCaptureInFlight' = (globalCaptureInFlight /\ ~cleanupReleases({s}))
    /\ globalCaptureSessionId' = IF cleanupReleases({s}) THEN 0 ELSE globalCaptureSessionId
    /\ sessions' = sessions \ Closing({s})
    /\ UNCHANGED <<elVars, cfg, gwVars, workerVars, pend, msgs, sent, ev, validAuth, noHello>>

\* A HELLO timer that closes only sessions that did say HELLO: the fault
\* C6_NoHelloClosed has to notice.
helloTimerSparesSilent(s) == isWsOpen(s) /\ sess[s].deviceId # "unknown"

\* The helloTimer callback: whether it closes the WebSocket.
helloTimerCloses(s) == isWsOpen(s) /\ sess[s].deviceId = "unknown"

helloTimer(s) ==
    /\ sess[s].helloTimer
    /\ sess' = [sess EXCEPT ![s].helloTimer = FALSE]
    /\ ws' = IF helloTimerCloses(s) THEN wsCloseCall(s) ELSE ws
    /\ noHello' = IF sess[s].deviceId = "unknown" THEN noHello \cup {s} ELSE noHello
    /\ UNCHANGED <<elVars, cfg, gwVars, coordVars, workerVars, sessions, pend, proc, socks,
                   msgs, sent, ev, validAuth>>

\* ------------------------------------------------- onConnection.message: HELLO
\* Text "HELLO [payloadId] <deviceId>": up to the await of the time-zone lookup.
\* parseHello cannot return null here: the trimmed text starts with "HELLO "
\* and so has a second token.
onHello(s, dev) ==
    /\ ws[s] \in {"OPEN", "CLOSING"}
    /\ msgs < MaxMsgs
    /\ msgs' = msgs + 1
    /\ sess' = [sess EXCEPT ![s].deviceId = safeDeviceId(dev)]
    /\ pend' = [pend EXCEPT ![s].hello = @ + 1]
    /\ UNCHANGED <<elVars, cfg, gwVars, coordVars, workerVars, sessions, ws, proc, socks,
                   sent, ev, validAuth, noHello>>

\* pullDeviceTimezoneOffsetHours threw (cache or registry failure): the
\* handler's promise rejects and nothing after the await runs.
onHelloLookupFailed(s) ==
    /\ pend[s].hello > 0
    /\ pend' = [pend EXCEPT ![s].hello = @ - 1]
    /\ UNCHANGED <<elVars, cfg, gwVars, coordVars, workerVars, sessions, sess, ws, proc,
                   socks, msgs, sent, ev, validAuth, noHello>>

\* The lookup returned: mint the nonce, send CHAL and, when auth is not
\* required, mark the session authed and try to capture.
onHelloResume(s) ==
    /\ pend[s].hello > 0
    /\ LET authed == IF cfg.requireAuth THEN sess[s].authed ELSE TRUE
           s1 == sendTo(sent, s, "CHAL")
       IN /\ sess' = [sess EXCEPT ![s].nonceB64 = @ + 1, ![s].authed = authed]
          /\ sent' = IF cfg.requireAuth THEN s1 ELSE sendTo(s1, s, "AUTH_OK")
          /\ pend' = [pend EXCEPT
                        ![s].hello = @ - 1,
                        ![s].params = IF ~cfg.requireAuth /\ maybeAutoCapture(s, authed)
                                      THEN @ + 1 ELSE @]
    /\ UNCHANGED <<elVars, cfg, gwVars, coordVars, workerVars, sessions, ws, proc, socks,
                   msgs, ev, validAuth, noHello>>

\* -------------------------------------------------- onConnection.message: AUTH
\* What a device can put in the signature field: a signature by a key holder
\* over a nonce this session has issued, or over something else (0).
Sigs(s) == {<<d, n>> : d \in CertDevices, n \in 0..sess[s].nonceB64}

\* Whether sig was made by the registered key of device id over the nonce
\* issued to session s: what an AUTH has to carry to be valid.
signedFor(s, id, sig) ==
    /\ id \in CertDevices
    /\ sig[1] = id
    /\ sig[2] = sess[s].nonceB64
    /\ sess[s].nonceB64 # 0

deviceMismatchIgnored(s, devId) == FALSE

\* The AUTH names another device than the one the session is known by.
deviceMismatch(s, devId) ==
    sess[s].deviceId # "unknown" /\ devId # sess[s].deviceId

\* Text "AUTH <deviceId> <sigB64>": up to the await of verifyAuth.  `looked`
\* is FALSE when the certificate lookup throws (no data source, query error).
onAuth(s, dev, sig, looked) ==
    /\ ws[s] \in {"OPEN", "CLOSING"}
    /\ msgs < MaxMsgs
    /\ msgs' = msgs + 1
    /\ LET devId == safeDeviceId(dev) IN
       IF sess[s].nonceB64 = 0
       THEN /\ sent' = sendTo(sent, s, "AUTH_FAIL no_chal")
            /\ UNCHANGED <<sess, pend, validAuth>>
       ELSE IF deviceMismatch(s, devId)
       THEN /\ sent' = sendTo(sent, s, "AUTH_FAIL device_mismatch")
            /\ UNCHANGED <<sess, pend, validAuth>>
       ELSE LET id == IF sess[s].deviceId = "unknown" THEN devId ELSE sess[s].deviceId
            IN /\ sess' = [sess EXCEPT ![s].deviceId = id]
               /\ pend' = IF ~looked THEN pend
                          ELSE IF verify(id, sess[s].nonceB64, sig)
                          THEN [pend EXCEPT ![s].authOk = @ + 1]
                          ELSE [pend EXCEPT ![s].authFail = @ + 1]
               /\ validAuth' = IF looked /\ signedFor(s, id, sig)
                                THEN validAuth \cup {s} ELSE validAuth
               /\ UNCHANGED sent
    /\ UNCHANGED <<elVars, cfg, gwVars, coordVars, workerVars, sessions, ws, proc, socks,
                   ev, noHello>>

\* The value the AUTH handler stores in session.authed for a verify result.
authedAfterVerify(ok) == ok

\* verifyAuth resolved false.
onAuthFailed(s) ==
    /\ pend[s].authFail > 0
    /\ pend' = [pend EXCEPT ![s].authFail = @ - 1]
    /\ sess' = [sess EXCEPT ![s].authed = authedAfterVerify(FALSE)]
    /\ sent' = sendTo(sent, s, "AUTH_FAIL verify_failed")
    /\ ws' = IF cfg.requireAuth THEN wsCloseCall(s) ELSE ws
    /\ UNCHANGED <<elVars, cfg, gwVars, coordVars, workerVars, sessions, proc, socks, msgs,
                   ev, validAuth, noHello>>

\* verifyAuth resolved true.
onAuthOk(s) ==
    /\ pend[s].authOk > 0
    /\ sess' = [sess EXCEPT ![s].authed = authedAfterVerify(TRUE)]
    /\ sent' = sendTo(sent, s, "AUTH_OK")
    /\ pend' = [pend EXCEPT
                  ![s].authOk = @ - 1,
                  ![s].params = IF maybeAutoCapture(s, authedAfterVerify(TRUE))
                                THEN @ + 1 ELSE @]
    /\ UNCHANGED <<elVars, cfg, gwVars, coordVars, workerVars, sessions, ws, proc, socks,
                   msgs, ev, validAuth, noHello>>

\* ------------------------------------------------------------ StorageWorker
hasCapacityAlways(n) == TRUE

\* The pool takes another job when n are in flight.
hasCapacity(n) == n < cfg.concurrency

\* pump(): start queued jobs while fewer than `concurrency` are in flight.
\* The result is the worker's queue, inFlight and the jobs being stored.
RECURSIVE pumpLoop(_, _, _)
pumpLoop(q, n, st) ==
    IF hasCapacity(n) /\ Len(q) > 0
    THEN pumpLoop(Tail(q), n + 1, [st EXCEPT ![Head(q)] = @ + 1])
    ELSE [queue |-> q, inFlight |-> n, storing |-> st]

pump(run, q, n, st) ==
    IF run THEN pumpLoop(q, n, st) ELSE [queue |-> q, inFlight |-> n, storing |-> st]

\* The worker's state after `w` replaces it: every job pump started is one
\* more call of the adapter's store().
workerBecomes(w) ==
    /\ queue' = w.queue
    /\ inFlight' = w.inFlight
    /\ storing' = w.storing
    /\ UNCHANGED <<evStore, dayCall>>

emitCapturedTwice(s) ==
    IF onCapturedBound
    THEN workerBecomes(pump(running, Append(Append(queue, s), s), inFlight, storing))
    ELSE UNCHANGED <<queue, inFlight, storing, evStore, dayCall>>

\* events.emitCaptured(e): the worker's listener, when subscribed, enqueues
\* the event and pumps.
emitCaptured(s) ==
    IF onCapturedBound
    THEN workerBecomes(pump(running, Append(queue, s), inFlight, storing))
    ELSE UNCHANGED <<queue, inFlight, storing, evStore, dayCall>>

\* StorageWorker.start()
workerStart ==
    IF running THEN UNCHANGED <<running, onCapturedBound>>
    ELSE running' = TRUE /\ onCapturedBound' = TRUE

\* StorageWorker.stop() up to its wait loop; with nothing in flight the loop
\* is skipped and the queue is dropped at once.
workerStop ==
    IF ~running THEN UNCHANGED <<running, onCapturedBound, queue, stopWaiting>>
    ELSE /\ running' = FALSE
         /\ onCapturedBound' = FALSE
         /\ IF inFlight = 0
            THEN queue' = <<>> /\ UNCHANGED stopWaiting
            ELSE stopWaiting' = stopWaiting + 1 /\ UNCHANGED queue

\* The wait loop of stop() ends (nothing in flight, or 5 s have passed).
workerStopWaited ==
    /\ alive
    /\ stopWaiting > 0
    /\ stopWaiting' = stopWaiting - 1
    /\ queue' = <<>>
    /\ UNCHANGED <<elVars, cfg, gwVars, coordVars, sessVars, running, onCapturedBound,
                   inFlight, storing, evStore, dayCall>>

shouldDeleteAlways(ok, del) == del

\* Whether the job unlinks its local file: only past the await of store(),
\* and when STORAGE_DELETE_LOCAL and the adapter's deleteLocal (`del`) say so.
shouldDelete(ok, del) == ok /\ del

\* A job of pump() settles: storage.store() returned (ok) or threw.
storeSettled(s, ok, del) ==
    /\ alive
    /\ storing[s] > 0
    /\ LET w == pump(running, queue, inFlight - 1, [storing EXCEPT ![s] = @ - 1])
       IN /\ queue' = w.queue
          /\ inFlight' = w.inFlight
          /\ storing' = w.storing
          /\ evStore' = [t \in Ids |->
                [evStore[t] EXCEPT
                    !.stored = IF t = s /\ ok THEN @ + 1 ELSE @,
                    !.failed = IF t = s /\ ~ok THEN @ + 1 ELSE @,
                    !.unlinked = IF t = s /\ shouldDelete(ok, del) THEN @ + 1 ELSE @]]
    /\ UNCHANGED <<elVars, cfg, gwVars, coordVars, sessVars, running, onCapturedBound,
                   stopWaiting, dayCall>>

\* ------------------------------------------------- maybeAutoCapture (async)
\* The catch block of maybeAutoCapture.
captureFailed(s, err) ==
    /\ ws' = wsCloseCall(s)
    /\ ev' = emitFailed(s, err)

\* What pullCameraProfile finds for a device: the cache or the registry
\* failed ("lookup_error"); no sensor carries RTSP_PATH, CAM_USER or CAM_PASS
\* in its metadata ("none", the function returns null); a sensor's metadata
\* has some of the keys but no CAM_PASS ("meta"), or has CAM_PASS
\* ("meta_pass").
Profiles == {"lookup_error", "none", "meta", "meta_pass"}

\* buildTunnelParams throws when the lookup fails, and when the profile is
\* null, whose CAM_USER it reads.
buildTunnelParamsThrows(profile) == profile \in {"lookup_error", "none"}

\* params.camPass of buildTunnelParams is non-empty: cmProfile.CAM_PASS, or
\* the process-wide CAM_PASS when the metadata has none.
paramsCamPass(profile) == profile = "meta_pass" \/ cfg.camPass

\* buildTunnelParams settled and captureOnce ran to its await of ffmpeg.
\* outcome: "mkdir_error" - mkOutFile threw after the reservation; "spawn" -
\* ffmpeg was spawned.
autoCapture(s, profile, outcome) ==
    /\ pend[s].params > 0
    /\ pend' = [pend EXCEPT ![s].params = @ - 1]
    /\ IF buildTunnelParamsThrows(profile)
       THEN /\ captureFailed(s, "profile")
            /\ UNCHANGED <<coordVars, sess, proc>>
       ELSE IF captureOnceError(s) # "none"
       THEN /\ captureFailed(s, captureOnceError(s))
            /\ UNCHANGED <<coordVars, sess, proc>>
       ELSE /\ globalCaptureInFlight' = TRUE
            /\ globalCaptureSessionId' = s
            /\ IF outcome = "mkdir_error"
               THEN /\ sess' = [sess EXCEPT ![s].captureActive = TRUE]
                    /\ captureFailed(s, "mkdir")
                    /\ UNCHANGED proc
               ELSE /\ sess' = [sess EXCEPT ![s].captureActive = TRUE, ![s].ffmpeg = TRUE]
                    /\ proc' = [proc EXCEPT ![s] = "running"]
                    /\ UNCHANGED <<ws, ev>>
    /\ UNCHANGED <<elVars, cfg, gwVars, workerVars, sessions, socks, msgs, sent,
                   validAuth, noHello>>

\* The capture timeout fires while ffmpeg is alive: SIGKILL ends it, and its
\* close event will carry no exit code.  (A kill of a process that has
\* already exited changes nothing.)
watchdog(s) ==
    /\ proc[s] = "running"
    /\ proc' = [proc EXCEPT ![s] = "timedout"]
    /\ UNCHANGED <<elVars, cfg, gwVars, coordVars, workerVars, sessions, sess, ws, pend,
                   socks, msgs, sent, ev, validAuth, noHello>>

\* Whether captureOnce returns the file for an exit code and output file.
captureSucceeded(code, file) == code = 0 /\ file # "missing"

resolvedCodeAsGiven(s, c) == c

\* resolve(c ?? 1): a process ended by the timeout's SIGKILL closes with no
\* exit code, which becomes 1; any other process reports its own code.
resolvedCode(s, c) == IF proc[s] = "timedout" THEN 1 ELSE c

\* ffmpeg reported close (or error) and captureOnce ran on from its await,
\* followed by the rest of maybeAutoCapture.  A process that cleanup killed
\* after it had already exited still reports its own exit code.
ffmpegExit(s, c, file) ==
    LET code == resolvedCode(s, c) IN
    /\ proc[s] \in {"running", "killed", "timedout"}
    /\ proc' = [proc EXCEPT ![s] = IF @ = "timedout" THEN "timeout"
                                   ELSE IF code = 0 THEN file ELSE "failed"]
    /\ sess' = [sess EXCEPT ![s].captureActive = FALSE, ![s].ffmpeg = FALSE]
    /\ globalCaptureInFlight' = FALSE
    /\ globalCaptureSessionId' = 0
    /\ ws' = wsCloseCall(s)
    /\ IF captureSucceeded(code, file)
       THEN /\ ev' = [ev EXCEPT ![s].captured = @ + 1]
            /\ emitCaptured(s)
            /\ UNCHANGED sent
       ELSE /\ ev' = emitFailed(s, IF code # 0 THEN "ffmpeg failed"
                                   ELSE "ffmpeg success but file not found")
            /\ sent' = IF code # 0 THEN sendTo(sent, s, "CLOSE") ELSE sent
            /\ UNCHANGED <<queue, inFlight, storing, evStore, dayCall>>
    /\ UNCHANGED <<elVars, cfg, gwVars, sessions, pend, socks, msgs, validAuth, noHello, running,
                   onCapturedBound, stopWaiting>>

\* -------------------------------------------------------- onProxyConnection
proxyAcceptsClosingWs ==
    /\ globalCaptureSessionId \in sessions
    /\ sess[globalCaptureSessionId].captureActive

\* Whether the accepted loopback socket is bound to the capturing session.
proxyAccepts ==
    /\ globalCaptureSessionId \in sessions
    /\ sess[globalCaptureSessionId].captureActive
    /\ isWsOpen(globalCaptureSessionId)

onProxyConnection(k) ==
    /\ proxyServer = "listening"
    /\ socks[k].st = "free"
    /\ \A j \in TunnelSocks : j < k => socks[j].st # "free"
    /\ IF proxyAccepts
       THEN /\ sess' = [sess EXCEPT ![globalCaptureSessionId].proxySock = k]
            /\ socks' = [socks EXCEPT ![k].st = "open", ![k].owner = globalCaptureSessionId]
            /\ sent' = sendTo(sent, globalCaptureSessionId, "OPEN")
       ELSE /\ socks' = [socks EXCEPT ![k] = RejectedSock]
            /\ UNCHANGED <<sess, sent>>
    /\ UNCHANGED <<elVars, cfg, gwVars, coordVars, workerVars, sessions, ws, pend, proc,
                   msgs, ev, validAuth, noHello>>

\* ffSock.on("close") / ffSock.on("error"): the cleanup closure of
\* onProxyConnection, for a socket that ffmpeg closed or that was destroyed.
onProxyClose(k) ==
    /\ socks[k].st \in {"open", "destroyed"}
    /\ socks' = [socks EXCEPT ![k].st = "closed"]
    /\ sess' = [sess EXCEPT ![socks[k].owner].proxySock = IF @ = k THEN 0 ELSE @]
    /\ sent' = sendTo(sent, socks[k].owner, "CLOSE")
    /\ UNCHANGED <<elVars, cfg, gwVars, coordVars, workerVars, sessions, ws, pend, proc,
                   msgs, ev, validAuth, noHello>>

\* ------------------------------------------------ tunnel: frames and chunks
\* What a device can put in a binary frame: nothing, or a tag byte and a
\* payload.  Tags 1, 3 and 4 are the server's own.
FrameTags == {2, 3}
FrameLens == {0, 1}

\* Whether the binary branch of the message handler writes the payload to
\* session.proxySock.
frameWritten(s, len, tag) ==
    /\ len >= 1
    /\ tag = 2
    /\ sess[s].proxySock # 0
    /\ socks[sess[s].proxySock].st = "open"

\* ws.on("message") with a binary frame of len bytes whose first is tag.
wsBinary(s, len, tag) ==
    /\ ws[s] \in {"OPEN", "CLOSING"}
    /\ socks' = IF frameWritten(s, len, tag)
                THEN [socks EXCEPT ![sess[s].proxySock].wrote = @ \cup {s}]
                ELSE socks
    /\ UNCHANGED <<elVars, cfg, gwVars, coordVars, workerVars, sessions, sess, ws, pend,
                   proc, msgs, sent, ev, validAuth, noHello>>

\* ffSock.on("data"): a chunk read from loopback socket k is sent as a
\* type-1 frame on the WebSocket of the session of the handler's closure.
proxyData(k) ==
    /\ socks[k].st = "open"
    /\ LET s == socks[k].owner IN
       /\ socks' = IF isWsOpen(s)
                   THEN [socks EXCEPT ![k].fwd =
                            @ \cup {[to |-> s, bound |-> sess[s].proxySock = k]}]
                   ELSE socks
       /\ sent' = sendTo(sent, s, "DATA")
    /\ UNCHANGED <<elVars, cfg, gwVars, coordVars, workerVars, sessions, sess, ws, pend,
                   proc, msgs, ev, validAuth, noHello>>

\* ------------------------------------------------------ gateway start / stop
\* index.ts startAll past its leader gate: storageWorker.start(), then
\* gateway.start() up to its await of server.listen.  One start() is in
\* progress at a time.
startAllCall ==
    /\ startPc = "idle"
    /\ ~started
    /\ starts < MaxStarts
    /\ workerStart
    /\ started' = TRUE
    /\ server' = "created"
    /\ wss' = TRUE
    /\ startPc' = "listenWs"
    /\ starts' = starts + 1
    /\ UNCHANGED <<cfg, coordVars, sessVars, proxyServer, stopPc, stopAllPc,
                   inFlight, queue, storing, stopWaiting, evStore, dayCall>>

\* start(): the WebSocket server is listening; the proxy server is created.
startWsListening ==
    /\ alive
    /\ startPc = "listenWs"
    /\ server' = IF server = "created" THEN "listening" ELSE server
    /\ proxyServer' = "created"
    /\ startPc' = "listenProxy"
    /\ UNCHANGED <<elVars, cfg, coordVars, sessVars, workerVars, started, wss, stopPc,
                   stopAllPc, starts>>

\* start(): the loopback proxy is listening.
startProxyListening ==
    /\ alive
    /\ startPc = "listenProxy"
    /\ proxyServer' = IF proxyServer = "created" THEN "listening" ELSE proxyServer
    /\ startPc' = "idle"
    /\ UNCHANGED <<elVars, cfg, coordVars, sessVars, workerVars, started, server, wss,
                   stopPc, stopAllPc, starts>>

\* The end of stop(): the coordinator is reset; a stopAll that awaited it goes
\* on to storageWorker.stop().
stopReturns ==
    /\ globalCaptureInFlight' = FALSE
    /\ globalCaptureSessionId' = 0
    /\ stopPc' = "idle"
    /\ stopAllPc' = "idle"
    /\ IF stopAllPc = "gateway" THEN workerStop
       ELSE UNCHANGED <<running, onCapturedBound, queue, stopWaiting>>

\* stop() from "Close wss + server" to its await of server.close.
stopClosesWss ==
    /\ wss' = FALSE
    /\ IF server # "null"
       THEN /\ server' = "closing"
            /\ stopPc' = "closeServer"
            /\ UNCHANGED <<coordVars, stopAllPc, running, onCapturedBound, queue,
                           stopWaiting>>
       ELSE /\ UNCHANGED server
            /\ stopReturns

\* index.ts stopAll: gateway.stop() up to its first await; when the gateway is
\* not started stop() returns at once and storageWorker.stop() runs.
stopAllCall ==
    /\ started \/ running
    /\ IF ~started
       THEN /\ workerStop
            /\ UNCHANGED <<cfg, gwVars, coordVars, sessVars, inFlight, storing, evStore, dayCall>>
       ELSE /\ stopPc = "idle" /\ stopAllPc = "idle"
            /\ started' = FALSE
            /\ sess' = cleanupSess(sessions)
            /\ proc' = cleanupProc(sessions)
            /\ socks' = cleanupSocks(sessions)
            /\ sent' = cleanupSent(sessions)
            /\ sessions' = {}
            /\ IF proxyServer # "null"
               THEN /\ proxyServer' = "closing"
                    /\ stopPc' = "closeProxy"
                    /\ stopAllPc' = "gateway"
                    /\ globalCaptureInFlight' = (globalCaptureInFlight /\ ~cleanupReleases(sessions))
                    /\ globalCaptureSessionId' =
                          IF cleanupReleases(sessions) THEN 0 ELSE globalCaptureSessionId
                    /\ UNCHANGED <<server, wss, running, onCapturedBound, queue, stopWaiting>>
               ELSE /\ UNCHANGED proxyServer
                    /\ wss' = FALSE
                    /\ server' = "closing"
                    /\ stopPc' = "closeServer"
                    /\ stopAllPc' = "gateway"
                    /\ globalCaptureInFlight' = (globalCaptureInFlight /\ ~cleanupReleases(sessions))
                    /\ globalCaptureSessionId' =
                          IF cleanupReleases(sessions) THEN 0 ELSE globalCaptureSessionId
                    /\ UNCHANGED <<running, onCapturedBound, queue, stopWaiting>>
            /\ UNCHANGED <<cfg, startPc, starts, ws, pend, msgs, ev,
                           validAuth, noHello, inFlight, storing, evStore, dayCall>>

\* stop(): proxyServer.close called back, which it does once every loopback
\* connection has ended.
stopProxyClosed ==
    /\ alive
    /\ stopPc = "closeProxy"
    /\ \A k \in TunnelSocks : socks[k].st \notin {"open", "destroyed"}
    /\ proxyServer' = "null"
    /\ stopClosesWss
    /\ UNCHANGED <<elVars, cfg, sessVars, started, startPc, starts, inFlight, storing, evStore, dayCall>>

\* stop(): server.close called back, which it does once every connection of
\* the HTTP server, the upgraded WebSocket connections included, has ended.
stopServerClosed ==
    /\ alive
    /\ stopPc = "closeServer"
    /\ \A s \in Ids : ws[s] \in {"none", "CLOSED"}
    /\ server' = "null"
    /\ stopReturns
    /\ UNCHANGED <<elVars, cfg, sessVars, started, wss, proxyServer, startPc, starts,
                   inFlight, storing, evStore, dayCall>>

\* ------------------------------------------------------- leader election
\* LeaderElector.amLeader of the modelled replica.
amLeader == lock[instanceId]

\* index.ts init on a single node: startAll, whose leader gate passes.
startAll ==
    /\ leader => amLeader
    /\ startAllCall
    /\ UNCHANGED elVars

\* index.ts shutdown, or a stop asked of a single node.
stopAll ==
    /\ stopAllCall
    /\ UNCHANGED elVars

\* The "elected" hook of index.ts: startAll, whose gate passes since the lock
\* was set just before the event; gateway.start() returns at once when the
\* gateway is started.
electedHook ==
    IF started
    THEN /\ workerStart
         /\ UNCHANGED <<cfg, gwVars, coordVars, sessVars, inFlight, queue, storing,
                        stopWaiting, evStore, dayCall>>
    ELSE startAllCall

\* The "revoked" hook of index.ts: stopAll.
revokedHook ==
    IF started \/ running THEN stopAllCall ELSE UNCHANGED gatewayVars

\* index.ts init with a leader elector: the hooks are registered, then
\* startAll runs and returns at its gate unless this replica is the leader.
moduleInit ==
    /\ alive
    /\ leader /\ ~hooked
    /\ hooked' = TRUE
    /\ IF amLeader THEN startAllCall ELSE UNCHANGED gatewayVars
    /\ UNCHANGED <<leader, holder, lock, acquireTimer, acquiring, renewTimer,
                   renewing, lastEvent, shutPc>>

\* The acquire timer fires and tryAcquire runs: with the lock held it returns
\* before its try / finally, so no further attempt is scheduled; otherwise it
\* awaits redlock.acquire.
acquireTimerFires(r) ==
    /\ up(r)
    /\ acquireTimer[r]
    /\ acquireTimer' = [acquireTimer EXCEPT ![r] = FALSE]
    /\ acquiring' = [acquiring EXCEPT ![r] = ~lock[r]]
    /\ UNCHANGED <<gatewayVars, leader, hooked, holder, lock, renewTimer, renewing,
                   lastEvent, shutPc>>

\* redlock.acquire settles: on success the lock is kept, "elected" is emitted
\* and the renew loop starts; either way the finally block arms the timer for
\* the next attempt.
tryAcquireSettles(r, ok) ==
    /\ up(r)
    /\ acquiring[r]
    /\ ok => holder = 0
    /\ acquiring' = [acquiring EXCEPT ![r] = FALSE]
    /\ acquireTimer' = [acquireTimer EXCEPT ![r] = TRUE]
    /\ IF ok
       THEN /\ holder' = r
            /\ lock' = [lock EXCEPT ![r] = TRUE]
            /\ renewTimer' = [renewTimer EXCEPT ![r] = TRUE]
            /\ lastEvent' = [lastEvent EXCEPT ![r] = "elected"]
            /\ IF r = instanceId /\ hooked THEN electedHook
               ELSE UNCHANGED gatewayVars
       ELSE UNCHANGED <<gatewayVars, holder, lock, renewTimer, lastEvent>>
    /\ UNCHANGED <<leader, hooked, renewing, shutPc>>

\* A tick of the renew interval: without a lock it does nothing, otherwise it
\* awaits lock.extend, whether or not an earlier extension is still pending.
renewTick(r) ==
    /\ up(r)
    /\ renewTimer[r] /\ lock[r] /\ renewing[r] < MaxRenewals
    /\ renewing' = [renewing EXCEPT ![r] = @ + 1]
    /\ UNCHANGED <<gatewayVars, leader, hooked, holder, lock, acquireTimer,
                   acquiring, renewTimer, lastEvent, shutPc>>

\* safeRevoke: the renew interval is cleared, the lock is dropped and
\* "revoked" is emitted.
safeRevoke(r) ==
    /\ renewTimer' = [renewTimer EXCEPT ![r] = FALSE]
    /\ lock' = [lock EXCEPT ![r] = FALSE]
    /\ lastEvent' = [lastEvent EXCEPT ![r] = "revoked"]
    /\ IF r = instanceId /\ hooked THEN revokedHook ELSE UNCHANGED gatewayVars

\* lock.extend settles: it succeeds only while the store still holds this
\* replica's lock, and the extended lock is assigned to this.lock; on failure
\* the renew loop calls safeRevoke.
renewSettles(r, ok) ==
    /\ up(r)
    /\ renewing[r] > 0
    /\ ok => holder = r
    /\ renewing' = [renewing EXCEPT ![r] = @ - 1]
    /\ IF ok
       THEN /\ lock' = [lock EXCEPT ![r] = TRUE]
            /\ UNCHANGED <<gatewayVars, renewTimer, lastEvent>>
       ELSE safeRevoke(r)
    /\ UNCHANGED <<leader, hooked, holder, acquireTimer, acquiring, shutPc>>

\* The lock's TTL runs out in the store: its holder no longer renews it, or
\* the holder's extension has not reached the store in time.
lockExpires ==
    /\ holder # 0
    /\ ~lock[holder] \/ renewing[holder] > 0
    /\ holder' = 0
    /\ UNCHANGED <<gatewayVars, leader, hooked, lock, acquireTimer, acquiring,
                   renewTimer, renewing, lastEvent, shutPc>>

\* LeaderElector.init has run on every replica: each awaits its first
\* redlock.acquire.
InitLeader ==
    /\ InitGateway
    /\ leader = TRUE
    /\ hooked = FALSE
    /\ holder = 0
    /\ lock = [r \in Replicas |-> FALSE]
    /\ acquireTimer = [r \in Replicas |-> FALSE]
    /\ acquiring = [r \in Replicas |-> TRUE]
    /\ renewTimer = [r \in Replicas |-> FALSE]
    /\ renewing = [r \in Replicas |-> 0]
    /\ lastEvent = [r \in Replicas |-> "none"]
    /\ shutPc = [r \in Replicas |-> "run"]
    /\ dayCall = NoDayCall

\* The replicas' electors and the modelled replica's start and stop, with no
\* session connected, and a store that answers each extension within the
\* renew interval.
NextLeader ==
    \/ moduleInit
    \/ \E r \in Replicas : acquireTimerFires(r)
    \/ \E r \in Replicas, ok \in BOOLEAN : tryAcquireSettles(r, ok)
    \/ \E r \in Replicas : renewing[r] = 0 /\ renewTick(r)
    \/ \E r \in Replicas, ok \in BOOLEAN : renewSettles(r, ok)
    \/ lockExpires
    \/ startWsListening
    \/ startProxyListening
    \/ stopProxyClosed
    \/ stopServerClosed

SpecLeader == InitLeader /\ [][NextLeader]_vars

\* ------------------------------------------------------------------ SIGTERM
\* The SIGTERM handler up to the first await of LeaderElector.shutdown: both
\* timers are cleared; safeRelease awaits lock.release when the lock is held
\* and returns at once otherwise, and redis.quit is awaited next.
sigterm(r) ==
    /\ leader
    /\ shutPc[r] = "run"
    /\ acquireTimer' = [acquireTimer EXCEPT ![r] = FALSE]
    /\ renewTimer' = [renewTimer EXCEPT ![r] = FALSE]
    /\ shutPc' = [shutPc EXCEPT ![r] = IF lock[r] THEN "release" ELSE "quit"]
    /\ UNCHANGED <<gatewayVars, leader, hooked, holder, lock, acquiring, renewing,
                   lastEvent>>

\* lock.release settled, whether it released the key (ok) or threw: the
\* finally block calls safeRevoke, whose "revoked" runs the hook up to its
\* first await; redis.quit is awaited next.
releaseSettles(r, ok) ==
    /\ shutPc[r] = "release"
    /\ shutPc' = [shutPc EXCEPT ![r] = "quit"]
    /\ holder' = IF ok /\ holder = r THEN 0 ELSE holder
    /\ safeRevoke(r)
    /\ UNCHANGED <<leader, hooked, acquireTimer, acquiring, renewing>>

\* redis.quit settled and the handler calls process.exit(0).
processExit(r) ==
    /\ shutPc[r] = "quit"
    /\ shutPc' = [shutPc EXCEPT ![r] = "exited"]
    /\ UNCHANGED <<gatewayVars, leader, hooked, holder, lock, acquireTimer,
                   acquiring, renewTimer, renewing, lastEvent>>

\* ---------------------------------------------------------- the day string
\* Times are counted in half hours since 1970-01-01T00:00Z, the grain of the
\* offsets below; Math.round of a whole number of milliseconds changes
\* nothing.
HalfHoursPerDay == 48

\* capturedAt values: the last day of 1970 at 00:00, 11:30 and 23:30, the
\* first of 1971 at 00:00 and 12:00, 1972-02-28 at 20:00, 1972-02-29 at
\* 02:00 and 23:30, and a string that Date cannot parse (-1).
CapturedAts ==
    {364 * 48, 364 * 48 + 23, 364 * 48 + 47, 365 * 48, 365 * 48 + 24,
     788 * 48 + 40, 789 * 48 + 4, 789 * 48 + 47, -1}

\* tzOffsetHours values: null, NaN, an infinity, and the numbers -15, -13,
\* -12, -5.5, 0, 5.5, 14, 14.5 and 15 hours (in half hours).
TzOffsets ==
    {[kind |-> k, v |-> 0] : k \in {"null", "NaN", "Infinity"}}
    \cup {[kind |-> "number", v |-> h] : h \in {-30, -26, -24, -11, 0, 11, 28, 29, 30}}

\* new Date(iso).getTime() is NaN.
invalidDate(capturedAt) == capturedAt < 0

isLeapYear(y) == (y % 4 = 0 /\ y % 100 # 0) \/ y % 400 = 0

daysInYear(y) == IF isLeapYear(y) THEN 366 ELSE 365

daysInMonth(y, m) ==
    IF m = 2 THEN (IF isLeapYear(y) THEN 29 ELSE 28)
    ELSE IF m \in {4, 6, 9, 11} THEN 30 ELSE 31

\* The year of the n-th day counted from the first of January of year y, and
\* the day's place in that year.
RECURSIVE yearFrom(_, _)
yearFrom(y, n) ==
    IF n < daysInYear(y) THEN <<y, n>> ELSE yearFrom(y + 1, n - daysInYear(y))

\* The month and the day of the month of the n-th day counted from the first
\* of month m of year y.
RECURSIVE monthFrom(_, _, _)
monthFrom(y, m, n) ==
    IF n < daysInMonth(y, m) THEN <<m, n + 1>>
    ELSE monthFrom(y, m + 1, n - daysInMonth(y, m))

\* getUTCFullYear, getUTCMonth + 1 and getUTCDate of a time: the fields of
\* the string yyyy-mm-dd.
utcDate(time) ==
    LET yd == yearFrom(1970, time \div HalfHoursPerDay)
        md == monthFrom(yd[1], 1, yd[2])
    IN <<yd[1], md[1], md[2]>>

offsetApplied(hasOffset, tz) == IF hasOffset /\ tz.kind = "number" THEN tz.v ELSE 0

\* dayFromCapturedAt: the offset is the argument when USE_DEVICE_TZ_OFFSET is
\* "1" and the argument is a finite number, and 0 otherwise.
dayFromCapturedAt(capturedAt, tz, hasOffset) ==
    IF invalidDate(capturedAt) THEN [st |-> "throws", ymd |-> <<0, 0, 0>>]
    ELSE [st |-> "day", ymd |-> utcDate(capturedAt + offsetApplied(hasOffset, tz))]

\* sanitizeTzOffsetHours: a finite number between -12 and 14 hours is
\* returned as it is; NaN, an infinity and any other number give null;
\* Number(null) is 0.
sanitizeTzOffsetHours(tz) ==
    IF tz.kind = "null" THEN [kind |-> "number", v |-> 0]
    ELSE IF tz.kind # "number" \/ tz.v < -24 \/ tz.v > 28 THEN [kind |-> "null", v |-> 0]
    ELSE tz

\* The calls of dayFromCapturedAt there are, none of them made yet.
InitDay ==
    /\ InitGateway
    /\ InitNoLeader
    /\ \E c \in CapturedAts, tz \in TzOffsets, h \in BOOLEAN :
          dayCall = [capturedAt |-> c, tzOffsetHours |-> tz, hasOffset |-> h,
                     result |-> [st |-> "none", ymd |-> <<0, 0, 0>>]]

\* pump() computes the day of a job.
pumpDay ==
    /\ dayCall.result.st = "none"
    /\ dayCall' = [dayCall EXCEPT !.result =
                      dayFromCapturedAt(dayCall.capturedAt, dayCall.tzOffsetHours,
                                        dayCall.hasOffset)]
    /\ UNCHANGED <<elVars, cfg, gwVars, coordVars, sessVars, running, onCapturedBound,
                   inFlight, queue, storing, stopWaiting, evStore>>

\* The gateway sanitizes the device's offset before the session keeps it, and
\* the job carries the session's offset to pump().
pumpDaySanitized ==
    /\ dayCall.result.st = "none"
    /\ dayCall' = [dayCall EXCEPT
                      !.tzOffsetHours = sanitizeTzOffsetHours(@),
                      !.result =
                          dayFromCapturedAt(dayCall.capturedAt,
                                            sanitizeTzOffsetHours(dayCall.tzOffsetHours),
                                            dayCall.hasOffset)]
    /\ UNCHANGED <<elVars, cfg, gwVars, coordVars, sessVars, running, onCapturedBound,
                   inFlight, queue, storing, stopWaiting, evStore>>

NextDay == pumpDay \/ pumpDaySanitized

SpecDay == InitDay /\ [][NextDay]_vars

\* --------------------------------------------- the storage worker on its own
RECURSIVE sumOver(_, _)
sumOver(f, S) ==
    IF S = {} THEN 0
    ELSE LET x == CHOOSE y \in S : TRUE IN f[x] + sumOver(f, S \ {x})

\* The captured events the worker has taken and not dropped: queued, being
\* stored, or settled.
jobsTaken ==
    Len(queue) + inFlight
      + sumOver([s \in Ids |-> evStore[s].stored + evStore[s].failed], Ids)

\* StorageWorker.start(), whoever calls it.
workerStarts ==
    /\ workerStart
    /\ UNCHANGED <<elVars, cfg, gwVars, coordVars, sessVars, inFlight, queue, storing,
                   stopWaiting, evStore, dayCall>>

\* StorageWorker.stop() up to its wait loop, whoever calls it.
workerStops ==
    /\ (running /\ inFlight > 0) => stopWaiting < MaxWaits
    /\ workerStop
    /\ UNCHANGED <<elVars, cfg, gwVars, coordVars, sessVars, inFlight, storing, evStore, dayCall>>

\* The snapshot:captured events emitted so far.
capturedEvents == sumOver([s \in Ids |-> ev[s].captured], Ids)

\* Some emitter fires snapshot:captured for a capture of session s.
capturedEmitted(s) ==
    /\ alive
    /\ capturedEvents < MaxJobs
    /\ ev' = [ev EXCEPT ![s].captured = @ + 1]
    /\ emitCaptured(s)
    /\ UNCHANGED <<elVars, cfg, gwVars, coordVars, sessions, sess, ws, pend, proc, socks,
                   msgs, sent, validAuth, noHello, running, onCapturedBound, stopWaiting>>

\* The storage worker under any sequence of start, stop and captured events.
NextWorker ==
    \/ workerStarts
    \/ workerStops
    \/ workerStopWaited
    \/ \E s \in Ids : capturedEmitted(s)
    \/ \E s \in Ids, ok \in BOOLEAN, del \in BOOLEAN : storeSettled(s, ok, del)

SpecWorker == Init /\ [][NextWorker]_vars

\* The replicas' electors, the modelled replica's start and stop and its
\* storage worker, with SIGTERM delivered to any replica at any time; a
\* capture completes only while the gateway is listening for devices.
NextShutdown ==
    \/ NextLeader
    \/ \E r \in Replicas : sigterm(r)
    \/ \E r \in Replicas, ok \in BOOLEAN : releaseSettles(r, ok)
    \/ \E r \in Replicas : processExit(r)
    \/ workerStopWaited
    \/ \E s \in Ids : /\ started /\ startPc = "idle"
                       /\ jobsTaken < MaxShutdownJobs
                       /\ capturedEmitted(s)
    \/ \E s \in Ids, ok \in BOOLEAN : storeSettled(s, ok, TRUE)

SpecShutdown == InitLeader /\ [][NextShutdown]_vars

\* ----------------------------------------------------------------- electors
\* The electors of the replicas on their own, before index.ts has hooked its
\* listeners: a store that may be slow to answer, so that a tick of the renew
\* interval can find the previous extension still pending, and SIGTERM.
NextElector ==
    \/ \E r \in Replicas : acquireTimerFires(r)
    \/ \E r \in Replicas, ok \in BOOLEAN : tryAcquireSettles(r, ok)
    \/ \E r \in Replicas : renewTick(r)
    \/ \E r \in Replicas, ok \in BOOLEAN : renewSettles(r, ok)
    \/ lockExpires
    \/ \E r \in Replicas : sigterm(r)
    \/ \E r \in Replicas, ok \in BOOLEAN : releaseSettles(r, ok)
    \/ \E r \in Replicas : processExit(r)

SpecElector == InitLeader /\ [][NextElector]_vars

\* ------------------------------------------------------------------ tunnel
\* The tunnel of a started gateway, with devices that say HELLO, captures
\* whose profile and output directory are in order, and any number of TCP
\* connections made to the loopback proxy.
NextTunnel ==
    \/ startAll
    \/ startWsListening
    \/ startProxyListening
    \/ \E s \in Ids : onConnection(s)
    \/ \E s \in Ids : wsOnClose(s)
    \/ \E s \in Ids, dev \in HelloDevices : onHello(s, dev)
    \/ \E s \in Ids : onHelloResume(s)
    \/ \E s \in Ids : autoCapture(s, "meta_pass", "spawn")
    \/ \E s \in Ids, code \in {0, 1} :
          ffmpegExit(s, code, IF code = 0 THEN "full" ELSE "missing")
    \/ \E k \in TunnelSocks : onProxyConnection(k)
    \/ \E k \in TunnelSocks : onProxyClose(k)
    \/ \E s \in Ids, len \in FrameLens, tag \in FrameTags : wsBinary(s, len, tag)
    \/ \E k \in TunnelSocks : proxyData(k)

SpecTunnel == Init /\ [][NextTunnel]_vars

\* ------------------------------------------------------------ specification
\* The single node runs with the default STORAGE_DELETE_LOCAL=1 and an
\* adapter that leaves the deletion to the worker.  The inputs of a handler
\* are drawn in the states in which the handler can run.
Next ==
    \/ startAll
    \/ startWsListening
    \/ startProxyListening
    \/ stopAll
    \/ stopProxyClosed
    \/ stopServerClosed
    \/ workerStopWaited
    \/ \E s \in Ids : onConnection(s)
    \/ \E s \in Ids : wsOnClose(s)
    \/ \E s \in Ids : wsOnError(s)
    \/ \E s \in Ids : helloTimer(s)
    \/ \E s \in Ids, dev \in HelloDevices : onHello(s, dev)
    \/ \E s \in Ids : onHelloLookupFailed(s)
    \/ \E s \in Ids : onHelloResume(s)
    \/ \E s \in Ids :
          /\ ws[s] \in {"OPEN", "CLOSING"} /\ msgs < MaxMsgs
          /\ \E dev \in AuthDevices, sig \in Sigs(s), looked \in BOOLEAN :
                onAuth(s, dev, sig, looked)
    \/ \E s \in Ids : onAuthFailed(s)
    \/ \E s \in Ids : onAuthOk(s)
    \/ \E s \in Ids :
          /\ pend[s].params > 0
          /\ \E profile \in Profiles, outcome \in {"mkdir_error", "spawn"} :
                autoCapture(s, profile, outcome)
    \/ \E s \in Ids : watchdog(s)
    \/ \E s \in Ids :
          /\ proc[s] \in {"running", "killed", "timedout"}
          /\ \E code \in {0, 1}, file \in {"missing", "empty", "full"} :
                (code = 1 => file = "missing") /\ ffmpegExit(s, code, file)
    \/ \E k \in SockIds : onProxyConnection(k)
    \/ \E k \in SockIds : onProxyClose(k)
    \/ \E s \in Ids, ok \in BOOLEAN : storeSettled(s, ok, TRUE)

Spec == Init /\ [][Next]_vars

\* ------------------------------------------------------------- properties
\* Sessions, cleaned up or not, whose captureActive flag is set.
Capturing == {s \in Ids : sess[s].captureActive}

\* ffmpeg children that were spawned and have not reported their exit.
Unreaped == {s \in Ids : proc[s] \in {"running", "killed", "timedout"}}

\* C1: at any moment at most one session created on the replica has
\* captureActive = true.
C1_SingleCapture == Cardinality(Capturing) <= 1

\* C2: at any moment at most one ffmpeg child that has not yet reported its
\* exit exists on the replica, children of cleaned-up sessions included.
C2_SingleFfmpeg == Cardinality(Unreaped) <= 1

\* C3: a session with closed = true has proxySock = null and ffmpeg = null and
\* is not in the session table, whatever arrives on its WebSocket afterwards.
C3_ClosedHoldsNothing ==
    \A s \in Ids :
        sess[s].closed =>
            /\ sess[s].proxySock = 0
            /\ ~sess[s].ffmpeg
            /\ s \notin sessions

\* C4: snapshot:captured is emitted for a capture exactly when its ffmpeg
\* exited with code 0 and left an output file of non-zero length.
C4_CapturedIffFile ==
    \A s \in Ids : (ev[s].captured > 0) <=> (proc[s] = "full")

\* C5: a snapshot:captured event is waiting in the worker's queue, is being
\* stored, or has got exactly one of snapshot:stored and
\* snapshot:failed{store}; it is never left without an outcome, also when
\* StorageWorker.stop() runs.
Outcomes(s) == evStore[s].stored + evStore[s].failed
Queued(s) == \E i \in 1..Len(queue) : queue[i] = s
C5_CapturedIsSettled ==
    \A s \in Ids :
        ev[s].captured > 0 =>
            \/ Outcomes(s) = 0 /\ (Queued(s) \/ storing[s] > 0)
            \/ Outcomes(s) = 1 /\ ~Queued(s) /\ storing[s] = 0

\* C6: a session whose HELLO timer fired before any HELLO arrived has had its
\* WebSocket closed by the server, and no captured, stored or failed event
\* is ever emitted for it.
C6_NoHelloClosed ==
    \A s \in noHello :
        /\ ws[s] # "OPEN"
        /\ ev[s] = NoEvents
        /\ evStore[s] = NoStoreEvents

\* A HELLO timer fired on a silent session and the server's close is under way.
C6_Witness ==
    \E s \in noHello : ws[s] = "CLOSING" /\ ~sess[s].closed /\ ~sess[s].helloTimer

\* C7: session.authed only ever changes from false to true: once a session
\* is authed, no later message, a failing AUTH included, makes it unauthed.
C7_AuthedMonotone ==
    [][\A s \in Ids : sess[s].authed => sess'[s].authed]_vars

\* C8: whenever the server answers AUTH_FAIL (no_chal, device_mismatch or
\* verify_failed), it closes the WebSocket if REQUIRE_AUTH=1 and leaves it as
\* it is if REQUIRE_AUTH=0.
AuthFailures ==
    {"AUTH_FAIL no_chal", "AUTH_FAIL device_mismatch", "AUTH_FAIL verify_failed"}
C8_AuthFailCloses ==
    [][\A s \in Ids :
          (\E m \in AuthFailures : m \in sent'[s] /\ m \notin sent[s]) =>
              IF cfg.requireAuth THEN ws'[s] # "OPEN" ELSE ws'[s] = ws[s]]_vars

\* C9: with REQUIRE_AUTH=1 a session reserves the capture slot, has an ffmpeg
\* spawned for it or is sent OPEN only after an AUTH that carried a valid
\* signature over its nonce; a session whose AUTHs all failed gets none.
C9_CaptureNeedsAuth ==
    cfg.requireAuth =>
        \A s \in Ids :
            \/ s \in validAuth
            \/ /\ ~sess[s].captureActive
               /\ proc[s] = "none"
               /\ "OPEN" \notin sent[s]
               /\ ~(globalCaptureInFlight /\ globalCaptureSessionId = s)

\* Under REQUIRE_AUTH=1 a session that sent a valid AUTH had ffmpeg spawned
\* for it and was sent OPEN.
C9_Witness ==
    /\ cfg.requireAuth
    /\ \E s \in validAuth : "OPEN" \in sent[s] /\ proc[s] # "none"

\* C10: when a session becomes authed under AUTO_CAPTURE=1 while another
\* session holds the capture slot, its capture is refused: at that point it
\* either gets snapshot:failed "Global capture already in progress" and its
\* WebSocket closed, or a capture flow is started that will end so.
becomesAuthed(s) == ~sess[s].authed /\ sess'[s].authed
heldByOther(s) == globalCaptureInFlight /\ globalCaptureSessionId # s
refused(s) ==
    /\ Len(ev'[s].failed) = Len(ev[s].failed) + 1
    /\ ev'[s].failed[Len(ev'[s].failed)] = "Global capture already in progress"
    /\ ws'[s] # "OPEN"
C10_BusyIsRefused ==
    [][\A s \in Ids :
          (cfg.autoCapture /\ isWsOpen(s) /\ becomesAuthed(s) /\ heldByOther(s)) =>
              (refused(s) \/ pend'[s].params > pend[s].params)]_vars

\* Neither start() nor stop() is suspended at an await.
lifecycleQuiet == startPc = "idle" /\ stopPc = "idle"

\* C13: with a leader elector present and index.ts initialised, whenever no
\* start() or stop() is in progress the WebSocket server and the loopback
\* proxy are listening if the elector's last event was "elected", and neither
\* is listening otherwise (a follower, or a replica whose last event was
\* "revoked", whatever the interleaving of the events with start()).
C13_ListeningIffElected ==
    (leader /\ hooked /\ lifecycleQuiet) =>
        IF lastEvent[instanceId] = "elected"
        THEN server = "listening" /\ proxyServer = "listening"
        ELSE server # "listening" /\ proxyServer # "listening"

\* C14: a replica whose last event is "revoked" is still trying to acquire
\* the lock: a tryAcquire is awaiting the store or the acquire timer is armed.
C14_KeepsAcquiring ==
    \A r \in Replicas :
        (leader /\ lastEvent[r] = "revoked") => (acquiring[r] \/ acquireTimer[r])

\* C15: at most one replica has amLeader() = true, also after the lock's TTL
\* ran out in the store while its holder's extension was unanswered.
C15_OneLeader ==
    leader => Cardinality({r \in Replicas : lock[r]}) <= 1

terminalError(s) ==
    \/ s \in noHello
    \/ cfg.requireAuth /\ sent[s] \cap AuthFailures # {}
    \/ proc[s] \in {"failed", "missing", "timeout"}

\* C11: a session that met a terminal error has exactly one snapshot:failed
\* event and its WebSocket is no longer open.
C11_TerminalErrorFailsOnce ==
    \A s \in Ids :
        terminalError(s) => (Len(ev[s].failed) = 1 /\ ws[s] # "OPEN")

\* C12: on every session READY is the first message sent, AUTH_OK is sent only
\* once CHAL has been, OPEN only once AUTH_OK has been, and once CLOSE has
\* been sent no CHAL, AUTH_OK or OPEN is sent for the first time.
C12_MessageOrder ==
    [][\A s \in Ids :
          LET new == sent'[s] \ sent[s] IN
          /\ (sent[s] = {} /\ new # {}) => new = {"READY"}
          /\ "AUTH_OK" \in new => "CHAL" \in sent'[s]
          /\ "OPEN" \in new => "AUTH_OK" \in sent[s]
          /\ "CLOSE" \in sent[s] => new \cap {"CHAL", "AUTH_OK", "OPEN"} = {}]_vars

\* A capture is in flight on a fully started gateway: a live ffmpeg belongs to
\* a registered session that holds the slot, and its loopback connection is
\* bound to the session.
captureInFlight ==
    /\ startPc = "idle"
    /\ \E s \in sessions :
          /\ proc[s] = "running"
          /\ sess[s].captureActive
          /\ globalCaptureInFlight /\ globalCaptureSessionId = s
          /\ sess[s].proxySock # 0
          /\ socks[sess[s].proxySock].st = "open"

\* C17: when stopAll, the handler of "revoked", stops the gateway while a
\* capture is in flight, then as soon as the handler has run the WebSocket
\* server accepts no connection and the gateway holds no session, no ffmpeg
\* and no capture reservation.
C17_RevokedMidCapture ==
    [][(started /\ ~started' /\ captureInFlight) =>
          /\ ~(wss' /\ server' = "listening")
          /\ sessions' = {}
          /\ \A s \in Ids : ~sess'[s].ffmpeg
          /\ ~globalCaptureInFlight']_vars

\* The cases in which an accepted loopback connection is to be rejected: no
\* session holds the capture slot, or the holder's WebSocket is not open, or
\* the holder is not capturing.
rejectCase ==
    \/ globalCaptureSessionId = 0
    \/ ws[globalCaptureSessionId] # "OPEN"
    \/ ~sess[globalCaptureSessionId].captureActive

\* C18: a loopback connection accepted in one of those cases is destroyed in
\* the same step: it is bound to no session, no session field and no
\* reservation changes, and nothing, OPEN included, is sent.
C18_ProxyRejects ==
    [][\A k \in SockIds :
          (socks[k].st = "free" /\ socks'[k].st # "free" /\ rejectCase) =>
             /\ socks'[k] = RejectedSock
             /\ sess' = sess
             /\ sent' = sent
             /\ sessions' = sessions
             /\ UNCHANGED coordVars]_vars

\* A loopback connection was rejected, the slot is held by a capturing session
\* whose WebSocket is no longer open, and that session was never sent OPEN.
C18_Witness ==
    /\ \E k \in SockIds : socks[k] = RejectedSock
    /\ globalCaptureSessionId # 0
    /\ sess[globalCaptureSessionId].captureActive
    /\ ws[globalCaptureSessionId] # "OPEN"
    /\ "OPEN" \notin sent[globalCaptureSessionId]

\* C19: a session has a proxySock only while its captureActive flag is set,
\* and no loopback socket is the proxySock of two sessions.
C19_ProxySockWhileCapturing ==
    /\ \A s \in Ids : sess[s].proxySock # 0 => sess[s].captureActive
    /\ \A s, t \in Ids :
          (s # t /\ sess[s].proxySock # 0) => sess[s].proxySock # sess[t].proxySock

\* C20: the step that closes a session, whatever its cause, cancels the HELLO
\* timer, kills a live ffmpeg child, destroys the bound loopback socket,
\* sends CLOSE if the WebSocket is open, and leaves the WebSocket not open.
C20_CleanupClosesAll ==
    [][\A s \in Ids :
          (~sess[s].closed /\ sess'[s].closed) =>
             /\ ~sess'[s].helloTimer
             /\ ~sess'[s].ffmpeg
             /\ (sess[s].ffmpeg /\ proc[s] = "running") => proc'[s] = "killed"
             /\ sess'[s].proxySock = 0
             /\ \A k \in SockIds :
                   (sess[s].proxySock = k /\ socks[k].st = "open") =>
                       socks'[k].st = "destroyed"
             /\ ws[s] = "OPEN" => "CLOSE" \in sent'[s]
             /\ ws'[s] # "OPEN"]_vars

\* An AUTH of session s is left unverified and unanswered but for `reply`: no
\* verifyAuth is pending for it, the session's fields and the record of valid
\* AUTHs are as before, and the reply was sent if the WebSocket is open.
rejectedWith(s, reply) ==
    /\ sent'[s] = IF ws[s] = "OPEN" THEN sent[s] \cup {reply} ELSE sent[s]
    /\ pend' = pend
    /\ sess' = sess
    /\ validAuth' = validAuth

\* The step is the AUTH handler of session s for some signature and some
\* outcome of the certificate lookup.
authReceived(s, dev) ==
    \E sig \in Sigs(s), looked \in BOOLEAN : onAuth(s, dev, sig, looked)

storesInProgress == sumOver(storing, Ids)

\* C22: the store() calls in progress never exceed the configured
\* concurrency, and the worker's inFlight counts exactly them, whatever the
\* sequence of start, stop and captured events.
C22_BoundedStores ==
    /\ storesInProgress <= cfg.concurrency
    /\ inFlight = storesInProgress

\* The worker was stopped with a store() in flight and started again, the
\* pool is full, and a later event waits in the queue.
C22_Witness ==
    /\ running
    /\ stopWaiting > 0
    /\ storesInProgress = cfg.concurrency
    /\ Len(queue) > 0

\* C23: the step in which store() fails for an event of session s emits one
\* snapshot:failed with stage store for it and no snapshot:stored, unlinks no
\* local file, and puts the event back neither in the queue nor in flight.
C23_StoreFailure ==
    [][\A s \in Ids, del \in BOOLEAN :
          storeSettled(s, FALSE, del) =>
             /\ evStore'[s].failed = evStore[s].failed + 1
             /\ evStore'[s].stored = evStore[s].stored
             /\ evStore'[s].unlinked = evStore[s].unlinked
             /\ \A t \in Ids \ {s} : evStore'[t] = evStore[t]
             /\ Len(queue') + inFlight' = Len(queue) + inFlight - 1]_vars

\* A store() failed for the only event of a session: one failure, nothing
\* stored, nothing unlinked, and the event is neither queued nor in flight.
C23_Witness ==
    \E s \in Ids :
        /\ evStore[s] = [stored |-> 0, failed |-> 1, unlinked |-> 0]
        /\ storing[s] = 0
        /\ \A i \in 1..Len(queue) : queue[i] # s

\* C24: whenever the gateway can emit snapshot:captured, that is while an
\* ffmpeg it spawned has not reported its exit, the storage worker is
\* subscribed to the topic.
C24_WorkerSubscribed ==
    \A s \in Ids : proc[s] \in {"running", "killed", "timedout"} => onCapturedBound

\* C25: on SIGTERM the stop of the storage worker completes before the
\* process exits: when the modelled replica's process has exited after
\* "revoked" was its elector's last event, no store job of its storage worker
\* is still in flight.
C25_ExitAfterStores ==
    (shutPc[instanceId] = "exited" /\ lastEvent[instanceId] = "revoked")
        => inFlight = 0

\* C26: DeviceAuth.verify never throws, so every AUTH that passes the no_chal
\* and device_mismatch checks gets a result from verifyAuth, from which the
\* handler answers AUTH_OK or AUTH_FAIL verify_failed.
C26_VerifyAlwaysAnswers ==
    [][msgs' # msgs =>
       \A s \in Ids, dev \in AuthDevices :
          (sess[s].nonceB64 # 0 /\ ~deviceMismatch(s, safeDeviceId(dev))
              /\ authReceived(s, dev)) =>
             pend'[s].authOk + pend'[s].authFail
                = pend[s].authOk + pend[s].authFail + 1]_vars

\* The step is the resumption of session s's auto capture after
\* buildTunnelParams settled with the given camera profile.
captureResumed(s, profile) ==
    \E outcome \in {"mkdir_error", "spawn"} : autoCapture(s, profile, outcome)

\* C27: absent metadata and failed lookups degrade to the process-wide
\* defaults: an auto capture of a session that passes every guard of
\* captureOnce reserves the capture when the device has no camera metadata
\* or its lookup failed, and an open session with a known device and no HELLO
\* awaiting the time-zone lookup has been sent its CHAL.
C27_DegradesToDefaults ==
    [][\A s \in Ids :
          /\ (pend[s].params > 0 /\ captureOnceError(s) = "none"
                /\ \E profile \in {"none", "lookup_error"} : captureResumed(s, profile))
                => sess'[s].captureActive
          /\ (ws'[s] = "OPEN" /\ sess'[s].deviceId # "unknown" /\ pend'[s].hello = 0)
                => "CHAL" \in sent'[s]]_vars

\* C28: a capture fails for a missing camera password exactly when the
\* resolved camPass is empty: an auto capture that resumes with the camera
\* profile of some sensor's metadata emits snapshot:failed with the CAM_PASS
\* error if and only if neither the metadata nor the process-wide default
\* provides CAM_PASS.
C28_ResolvedCamPass ==
    [][\A s \in Ids, profile \in {"meta", "meta_pass"} :
          (pend[s].params > 0 /\ captureResumed(s, profile)) =>
             (ev'[s].failed = Append(ev[s].failed, "CAM_PASS is required")
                 <=> ~paramsCamPass(profile))]_vars

\* The offset is NaN, an infinity, null, or a number outside [-12, 14] hours.
outOfRangeOrNonFinite(tz) == tz.kind # "number" \/ tz.v < -24 \/ tz.v > 28

\* C29: the day computation treats an out-of-range or non-finite offset as 0,
\* and with USE_DEVICE_TZ_OFFSET unset the result is the UTC day: a call of
\* dayFromCapturedAt that has returned with such an offset returned what it
\* returns for the same capturedAt and the offset 0, and a call made with the
\* variable unset returned the UTC date of capturedAt.
C29_OutOfRangeIsZero ==
    dayCall.result.st # "none" =>
       /\ outOfRangeOrNonFinite(dayCall.tzOffsetHours) =>
             dayCall.result =
                dayFromCapturedAt(dayCall.capturedAt, [kind |-> "number", v |-> 0],
                                  dayCall.hasOffset)
       /\ (~dayCall.hasOffset /\ ~invalidDate(dayCall.capturedAt)) =>
             dayCall.result.ymd = utcDate(dayCall.capturedAt)

\* C30: the capture coordinator mirrors the sessions in every reachable
\* state: globalCaptureInFlight holds exactly when globalCaptureSessionId is
\* set, and exactly when the session of that id has captureActive; no
\* connected session has captureActive while the coordinator is free or owned
\* by another session.
C30_CoordinatorMirrors ==
    /\ globalCaptureInFlight <=> globalCaptureSessionId # 0
    /\ globalCaptureInFlight <=>
          \E s \in Ids : globalCaptureSessionId = s /\ sess[s].captureActive
    /\ \A s \in sessions :
          sess[s].captureActive => (globalCaptureInFlight /\ globalCaptureSessionId = s)

\* The step is captureOnce of session s running on from its await of ffmpeg,
\* for some exit code and output file.
ffmpegExited(s) ==
    \E code \in {0, 1}, file \in {"missing", "empty", "full"} :
        (code = 1 => file = "missing") /\ ffmpegExit(s, code, file)

\* C31: the capture slot is released only on behalf of its holder: a step
\* that processes the ffmpeg exit of a session already cleaned up, or that
\* ends gateway stop, leaves a reservation held by another, connected session
\* as it is.
C31_ReleaseByHolderOnly ==
    [][(globalCaptureInFlight /\ globalCaptureSessionId \in sessions) =>
          /\ \A s \in Ids \ {globalCaptureSessionId} :
                (sess[s].closed /\ proc[s] \in {"running", "killed", "timedout"}
                    /\ ffmpegExited(s)) =>
                   (globalCaptureInFlight'
                      /\ globalCaptureSessionId' = globalCaptureSessionId)
          /\ stopServerClosed =>
                (globalCaptureInFlight'
                   /\ globalCaptureSessionId' = globalCaptureSessionId)]_vars

\* An event that frees the capture slot is due for its holder s: the exit of
\* the holder's ffmpeg, or the close event of the holder's WebSocket, which
\* runs the holder's cleanup.
releaseDue(s) ==
    \/ proc[s] \in {"running", "killed", "timedout"}
    \/ ws[s] = "CLOSING" /\ ~sess[s].closed

\* The server is about to close the open WebSocket of session t: its HELLO
\* timer is armed and it has not said HELLO, or a capture or a refused AUTH
\* of it is pending, each of which ends in ws.close().
closeDue(t) ==
    \/ sess[t].helloTimer /\ sess[t].deviceId = "unknown"
    \/ pend[t].params > 0
    \/ proc[t] \in {"running", "killed", "timedout"}
    \/ cfg.requireAuth /\ pend[t].authFail > 0

\* C32: every reservation of the capture slot is eventually released: while
\* the slot is reserved, an event that frees it is still due for its holder,
\* or a gateway stop that resets it is under way and waits for no WebSocket
\* that only its device can close, whichever path the capture took.
C32_ReservationReleased ==
    globalCaptureInFlight =>
        \/ \E s \in Ids : globalCaptureSessionId = s /\ releaseDue(s)
        \/ stopPc # "idle" /\ \A t \in Ids : ws[t] = "OPEN" => closeDue(t)

\* C33: each session has at most one capture outcome: at most one
\* snapshot:captured and at most one snapshot:failed of stage capture are
\* emitted for it, and never both.
C33_OneCaptureOutcome ==
    \A s \in Ids :
        /\ ev[s].captured <= 1
        /\ Len(ev[s].failed) <= 1
        /\ ~(ev[s].captured > 0 /\ Len(ev[s].failed) > 0)

\* The events of session s the worker holds or has settled: queued, handed
\* to the adapter's store(), or answered with snapshot:stored or
\* snapshot:failed of stage store.
deliveries(s) ==
    Cardinality({i \in 1..Len(queue) : queue[i] = s})
      + storing[s] + evStore[s].stored + evStore[s].failed

\* C34: delivery to storage is at most once: for the snapshot:captured events
\* of a session the worker never holds, stores or answers more events than
\* were emitted, across any sequence of start, stop and restart.
C34_AtMostOnce ==
    \A s \in Ids : deliveries(s) <= ev[s].captured

\* Three events of one session were emitted across stops and restarts: one
\* was stored, one failed in store(), and one was dropped.
C34_Witness ==
    \E s \in Ids :
        /\ ev[s].captured = 3
        /\ evStore[s].stored = 1 /\ evStore[s].failed = 1
        /\ deliveries(s) = 2
        /\ stopWaiting > 0 /\ running

\* C35: tunnel routing.  A type-2 payload is written only to a loopback socket
\* bound to the session that received the frame, and a chunk read from a
\* loopback socket is sent only on the WebSocket of the session the socket is
\* bound to (it is that session's proxySock when the chunk is sent).
C35_TunnelRouting ==
    \A k \in TunnelSocks :
        /\ \A s \in socks[k].wrote : socks[k].owner = s
        /\ \A f \in socks[k].fwd : f.to = socks[k].owner /\ f.bound

\* The loopback sockets whose chunks are piped to session s.
pipedTo(s) == {k \in TunnelSocks : socks[k].st = "open" /\ socks[k].owner = s}

\* C36: at most one loopback socket is piped to a session at a time, so an
\* OPEN is not followed by a second OPEN while the first socket is open and
\* its CLOSE has not been sent.
C36_OneSocketPiped ==
    \A s \in Ids : Cardinality(pipedTo(s)) <= 1

\* Some handler of session s is suspended or some timer or child process of
\* it is due: the server has a step left to take for the session.
serverStepDue(s) ==
    \/ closeDue(s)
    \/ pend[s].hello > 0
    \/ pend[s].authOk > 0
    \/ pend[s].authFail > 0

\* C37: with AUTO_CAPTURE=1 every authenticated session is eventually closed
\* by the server: while the gateway runs, an authenticated session whose
\* WebSocket is open has a capture outcome on the way, that is, the server
\* has a step left to take for it.
C37_AuthedIsClosed ==
    (cfg.autoCapture /\ stopPc = "idle") =>
        \A s \in sessions :
            (sess[s].authed /\ isWsOpen(s)) => serverStepDue(s)

\* C38: stop() terminates even when devices keep their WebSockets open after
\* CLOSE: while the stop() of a gateway whose start() had returned waits for
\* server.close, every WebSocket that is still open is one the server is
\* about to close itself.
C38_StopTerminates ==
    (stopPc = "closeServer" /\ startPc = "idle") =>
        \A t \in Ids : isWsOpen(t) => closeDue(t)

\* The step emits "elected" on replica r: its redlock.acquire settled with
\* the lock.
emitsElected(r) == acquiring[r] /\ ~acquiring'[r] /\ holder' = r /\ holder # r

\* The step runs safeRevoke on replica r, which emits "revoked": an extension
\* of its lock failed, or the release of shutdown() settled.
emitsRevoked(r) ==
    \/ renewing'[r] < renewing[r] /\ ~lock'[r]
    \/ shutPc[r] = "release" /\ shutPc'[r] = "quit"

\* C39: elected and revoked alternate, starting with elected, and agree with
\* amLeader(): elected is emitted only when the last event was not elected,
\* revoked only when the last event was elected (never twice in a row, a
\* renewal that overlaps the next tick or shutdown() included), and the
\* elector holds a lock exactly when its last event is elected.
C39_EventsAlternate ==
    [][\A r \in Replicas :
          /\ emitsElected(r) => lastEvent[r] # "elected"
          /\ emitsRevoked(r) => lastEvent[r] = "elected"
          /\ lock'[r] <=> lastEvent'[r] = "elected"]_vars

====
